---- MODULE Spec2Model ----
(***************************************************************************)
(* Lazy initialisation guard of news_search_agent/agent_BrightData_MCP.py. *)
(*                                                                         *)
(* One event loop thread runs the coroutines.  A coroutine runs from one   *)
(* suspension point (await) to the next without interruption, so every     *)
(* action below is one such run.  _init_lock is a threading.Lock: a        *)
(* coroutine that tries to take it while a suspended coroutine holds it    *)
(* blocks the event loop thread itself, and nothing runs any more.         *)
(***************************************************************************)
EXTENDS Naturals, Integers, Sequences, FiniteSets, TLC

\* ------------------------------------------------------------------ bounds
NumTasks == 3
NumCallers == 2

Tasks == 1..NumTasks
Callers == 1..NumCallers
NoTask == 0
NoCaller == 0

\* ---------------------------------------------------------- python values
PyNone == [kind |-> "None", items |-> <<>>]
PyList(s) == [kind |-> "list", items |-> s]
Truthy(v) == v.kind = "list" /\ Len(v.items) > 0

\* tool sequences MCPToolset.from_server can hand back on success: the
\* provider's tools, by the names the researcher's instruction uses
ToolSeqs == {<<"search_engine">>,
             <<"search_engine", "scraping_browser_navigate", "scraping_browser_get_text">>}

\* sub_agents of root_agent, by name
Stages == {"news_planner", "news_researcher", "news_publisher"}

\* what check_news_researcher_tools hands back
RespInitializing == "initializing"
RespInProgress == "in_progress"
RespDegraded == "degraded"
RespNone == "no_override"
NotCalled == "not_called"

VARIABLES
    _mcp_tools,                  \* module global, line 20
    _exit_stack,                 \* module global, line 21: "None" or "stack"
    _initialized,                \* module global, line 22
    _initialization_in_progress, \* module global, line 23
    lockHolder,                  \* owner of _init_lock, NoTask when free
    blocked,                     \* task on which the loop thread hangs in acquire()
    pc,                          \* position of each initialize_mcp_tools_async call
    ret,                         \* value each finished call returned
    agentTools,                  \* .tools of each sub agent of root_agent
    atexitHooks,                 \* number of cleanup_mcp closures registered
    cbLast,                      \* latest callback invocation: caller, agent_name, response
    cbTick,                      \* parity of the number of callback invocations
    cbTasks,                     \* number of tasks created by the callback (line 204)
    attempts,                    \* calls of MCPToolset.from_server so far
    lateCall,                    \* some call was made after the first attempt began
    lastResult,                  \* how the last from_server call ended
    okTools,                     \* what the (last) successful from_server call returned
    cleanupTick,                 \* parity of the number of cleanup_mcp invocations
    teardowns,                   \* calls of _exit_stack.aclose() so far
    lastTeardown                 \* how the last aclose() ended

vars == <<_mcp_tools, _exit_stack, _initialized, _initialization_in_progress,
          lockHolder, blocked, pc, ret, agentTools, atexitHooks,
          cbLast, cbTick, cbTasks, attempts, lateCall, lastResult, okTools,
          cleanupTick, teardowns, lastTeardown>>

guardVars == <<_mcp_tools, _exit_stack, _initialized, _initialization_in_progress,
               lockHolder, blocked, agentTools, atexitHooks>>
histVars == <<attempts, lateCall, lastResult, okTools>>
cbVars == <<cbLast, cbTick, cbTasks>>
exitVars == <<cleanupTick, teardowns, lastTeardown>>

\* ------------------------------------------------------ ConnectionState
Uninitialized == ~_initialized /\ ~_initialization_in_progress
InProgress == _initialization_in_progress
Ready == _initialized /\ ~_initialization_in_progress

Init ==
    /\ _mcp_tools = PyNone
    /\ _exit_stack = "None"
    /\ _initialized = FALSE
    /\ _initialization_in_progress = FALSE
    /\ lockHolder = NoTask
    /\ blocked = NoTask
    /\ pc = [t \in Tasks |-> "idle"]
    /\ ret = [t \in Tasks |-> PyNone]
    /\ agentTools = [s \in Stages |-> PyList(<<>>)]
    /\ atexitHooks = 0
    /\ cbLast = [caller |-> NoCaller, stage |-> "none", resp |-> NotCalled]
    /\ cbTick = 0
    /\ cbTasks = 0
    /\ attempts = 0
    /\ lateCall = FALSE
    /\ lastResult = "none"
    /\ okTools = PyNone
    /\ cleanupTick = 0
    /\ teardowns = 0
    /\ lastTeardown = "none"

\* the event loop thread is running (not stuck inside _init_lock.acquire())
LoopRuns == blocked = NoTask

\* ------------------------------------------- initialize_mcp_tools_async
\* A call is made: the coroutine exists, its body has not started to run.
Invoke(t) ==
    /\ LoopRuns
    /\ pc[t] = "idle"
    /\ pc' = [pc EXCEPT ![t] = "scheduled"]
    /\ lateCall' = (lateCall \/ attempts > 0)
    /\ UNCHANGED <<guardVars, attempts, lastResult, okTools, ret, cbVars, exitVars>>

\* the checks of lines 108 and 113 left out
AlreadyInitializedForgotten == FALSE

\* line 108 (and 113, which the same run re-evaluates): already initialized
AlreadyInitialized == _initialized

\* the check of line 116 left out
MustWaitIgnored == FALSE

\* line 116: somebody else is connecting
MustWait == _initialization_in_progress

\* lines 108-110: fast path
InitFastPath(t) ==
    /\ LoopRuns
    /\ pc[t] = "scheduled"
    /\ AlreadyInitialized
    /\ pc' = [pc EXCEPT ![t] = "done"]
    /\ ret' = [ret EXCEPT ![t] = _mcp_tools]
    /\ UNCHANGED <<guardVars, histVars, cbVars, exitVars>>

\* line 112 with the lock held by a coroutine suspended in its poll loop:
\* threading.Lock.acquire() never returns and the loop thread hangs
InitBlockOnLock(t) ==
    /\ LoopRuns
    /\ pc[t] = "scheduled"
    /\ ~AlreadyInitialized
    /\ lockHolder # NoTask
    /\ blocked' = t
    /\ pc' = [pc EXCEPT ![t] = "blocked"]
    /\ UNCHANGED <<_mcp_tools, _exit_stack, _initialized, _initialization_in_progress,
                   lockHolder, agentTools, atexitHooks, histVars, ret, cbVars, exitVars>>

\* lines 112-119: lock taken, in progress seen, first sleep inside the lock
InitWait(t) ==
    /\ LoopRuns
    /\ pc[t] = "scheduled"
    /\ ~AlreadyInitialized
    /\ lockHolder = NoTask
    /\ MustWait
    /\ lockHolder' = t
    /\ pc' = [pc EXCEPT ![t] = "polling"]
    /\ UNCHANGED <<_mcp_tools, _exit_stack, _initialized, _initialization_in_progress,
                   blocked, agentTools, atexitHooks, histVars, ret, cbVars, exitVars>>

\* lines 112-128: lock taken, flag set, lock released, from_server awaited
InitConnect(t) ==
    /\ LoopRuns
    /\ pc[t] = "scheduled"
    /\ ~AlreadyInitialized
    /\ lockHolder = NoTask
    /\ ~MustWait
    /\ _initialization_in_progress' = TRUE
    /\ pc' = [pc EXCEPT ![t] = "connecting"]
    /\ attempts' = attempts + 1
    /\ UNCHANGED <<_mcp_tools, _exit_stack, _initialized, lockHolder, blocked,
                   agentTools, atexitHooks, lateCall, lastResult, okTools,
                   ret, cbVars, exitVars>>

\* lines 118-121 with the loop left after one sleep, flag up or not
PollWakeEarly(t) ==
    /\ LoopRuns
    /\ pc[t] = "polling"
    /\ lockHolder' = NoTask
    /\ pc' = [pc EXCEPT ![t] = "done"]
    /\ ret' = [ret EXCEPT ![t] = _mcp_tools]
    /\ UNCHANGED <<_mcp_tools, _exit_stack, _initialized, _initialization_in_progress,
                   blocked, agentTools, atexitHooks, histVars, cbVars, exitVars>>

\* lines 118-121: the sleep is over and the flag is down: leave the with block
\* (while the flag is up the coroutine sleeps again, which changes nothing)
PollWake(t) ==
    /\ LoopRuns
    /\ pc[t] = "polling"
    /\ ~_initialization_in_progress
    /\ lockHolder' = NoTask
    /\ pc' = [pc EXCEPT ![t] = "done"]
    /\ ret' = [ret EXCEPT ![t] = _mcp_tools]
    /\ UNCHANGED <<_mcp_tools, _exit_stack, _initialized, _initialization_in_progress,
                   blocked, agentTools, atexitHooks, histVars, cbVars, exitVars>>

\* the loop of lines 168-174 finding no agent of that name
AssignToolsNowhere(tl) == agentTools

\* the loop of lines 168-174 without the test of the name
AssignToolsAll(tl) == [s \in Stages |-> tl]

\* lines 167-178: root_agent.sub_agents, the one named news_researcher gets the tools
AssignTools(tl) == [agentTools EXCEPT !["news_researcher"] = tl]

\* lines 128-181 without the finally clause of lines 187-189
ConnectSuccessKeepsFlag(t, s) ==
    /\ LoopRuns
    /\ pc[t] = "connecting"
    /\ _mcp_tools' = PyList(s)
    /\ _exit_stack' = "stack"
    /\ atexitHooks' = atexitHooks + 1
    /\ _initialized' = TRUE
    /\ agentTools' = AssignTools(PyList(s))
    /\ ret' = [ret EXCEPT ![t] = PyList(s)]
    /\ pc' = [pc EXCEPT ![t] = "done"]
    /\ lastResult' = "ok"
    /\ okTools' = PyList(s)
    /\ UNCHANGED <<_initialization_in_progress, lockHolder, blocked, attempts,
                   lateCall, cbVars, exitVars>>

\* lines 128-181 and 187-189: from_server returned tools
ConnectSuccess(t, s) ==
    /\ LoopRuns
    /\ pc[t] = "connecting"
    /\ _mcp_tools' = PyList(s)
    /\ _exit_stack' = "stack"
    /\ atexitHooks' = atexitHooks + 1
    /\ _initialized' = TRUE
    /\ agentTools' = AssignTools(PyList(s))
    /\ ret' = [ret EXCEPT ![t] = PyList(s)]
    /\ _initialization_in_progress' = FALSE
    /\ pc' = [pc EXCEPT ![t] = "done"]
    /\ lastResult' = "ok"
    /\ okTools' = PyList(s)
    /\ UNCHANGED <<lockHolder, blocked, attempts, lateCall, cbVars, exitVars>>

\* lines 183-189 with atexit.register(cleanup_mcp) moved into the finally clause
ConnectFailRegisters(t) ==
    /\ LoopRuns
    /\ pc[t] = "connecting"
    /\ _mcp_tools' = PyList(<<>>)
    /\ ret' = [ret EXCEPT ![t] = PyNone]
    /\ _initialization_in_progress' = FALSE
    /\ pc' = [pc EXCEPT ![t] = "done"]
    /\ lastResult' = "fail"
    /\ atexitHooks' = atexitHooks + 1
    /\ UNCHANGED <<_exit_stack, _initialized, lockHolder, blocked, agentTools,
                   attempts, lateCall, okTools, cbVars, exitVars>>

\* lines 183-186 without the finally clause of lines 187-189
ConnectFailKeepsFlag(t) ==
    /\ LoopRuns
    /\ pc[t] = "connecting"
    /\ _mcp_tools' = PyList(<<>>)
    /\ ret' = [ret EXCEPT ![t] = PyNone]
    /\ pc' = [pc EXCEPT ![t] = "done"]
    /\ lastResult' = "fail"
    /\ UNCHANGED <<_exit_stack, _initialized, _initialization_in_progress, lockHolder,
                   blocked, agentTools, atexitHooks, attempts, lateCall, okTools,
                   cbVars, exitVars>>

\* lines 128, 183-189: from_server raised
ConnectFail(t) ==
    /\ LoopRuns
    /\ pc[t] = "connecting"
    /\ _mcp_tools' = PyList(<<>>)
    /\ ret' = [ret EXCEPT ![t] = PyNone]
    /\ _initialization_in_progress' = FALSE
    /\ pc' = [pc EXCEPT ![t] = "done"]
    /\ lastResult' = "fail"
    /\ UNCHANGED <<_exit_stack, _initialized, lockHolder, blocked, agentTools,
                   atexitHooks, attempts, lateCall, okTools, cbVars, exitVars>>

\* ------------------------------------------- check_news_researcher_tools
\* the elif of line 212 left out
CallbackResponseNoWait(a) ==
    IF a = "news_researcher"
    THEN IF ~_initialized /\ ~_initialization_in_progress THEN RespInitializing
         ELSE IF _initialized /\ ~Truthy(_mcp_tools) THEN RespDegraded
         ELSE RespNone
    ELSE RespNone

\* lines 196-228: the response for agent_name a in the current state
CallbackResponse(a) ==
    IF a = "news_researcher"
    THEN IF ~_initialized /\ ~_initialization_in_progress THEN RespInitializing
         ELSE IF _initialization_in_progress THEN RespInProgress
         ELSE IF _initialized /\ ~Truthy(_mcp_tools) THEN RespDegraded
         ELSE RespNone
    ELSE RespNone

\* line 204 left out: nothing is scheduled
SchedulesInitNever(a) == FALSE

\* line 197 without its second conjunct
SchedulesInitWhileBusy(a) == a = "news_researcher" /\ ~_initialized

\* line 197 without the test of line 196
SchedulesInitAnyStage(a) == ~_initialized /\ ~_initialization_in_progress

\* line 197: the branch that schedules initialize_mcp_tools_async
SchedulesInit(a) ==
    a = "news_researcher" /\ ~_initialized /\ ~_initialization_in_progress

\* lines 191-228, the whole callback (it has no suspension point)
Callback(c, a) ==
    /\ LoopRuns
    /\ cbLast' = [caller |-> c, stage |-> a, resp |-> CallbackResponse(a)]
    /\ cbTick' = 1 - cbTick
    /\ IF SchedulesInit(a)
       THEN \E t \in Tasks :
               /\ pc[t] = "idle"
               /\ pc' = [pc EXCEPT ![t] = "scheduled"]
               /\ cbTasks' = cbTasks + 1
               /\ lateCall' = (lateCall \/ attempts > 0)
       ELSE UNCHANGED <<pc, cbTasks, lateCall>>
    /\ UNCHANGED <<guardVars, attempts, lastResult, okTools, ret, exitVars>>

\* ----------------------------------------------------------- cleanup_mcp
\* lines 145-162 with the finally clause only on the path without exception
CleanupMcpKeepsStack(raises) ==
    /\ atexitHooks > 0
    /\ cleanupTick' = 1 - cleanupTick
    /\ IF _exit_stack # "None"
       THEN /\ teardowns' = teardowns + 1
            /\ lastTeardown' = IF raises THEN "error" ELSE "closed"
            /\ _exit_stack' = IF raises THEN _exit_stack ELSE "None"
       ELSE UNCHANGED <<teardowns, lastTeardown, _exit_stack>>
    /\ UNCHANGED <<_mcp_tools, _initialized, _initialization_in_progress, lockHolder,
                   blocked, agentTools, atexitHooks, pc, ret, histVars, cbVars>>

\* lines 145-162: one invocation of the closure atexit holds (it exists once
\* line 163 has run); aclose() is started or run and may raise, the handle
\* is cleared in the finally clause
CleanupMcp(raises) ==
    /\ atexitHooks > 0
    /\ cleanupTick' = 1 - cleanupTick
    /\ IF _exit_stack # "None"
       THEN /\ teardowns' = teardowns + 1
            /\ lastTeardown' = IF raises THEN "error" ELSE "closed"
            /\ _exit_stack' = "None"
       ELSE UNCHANGED <<teardowns, lastTeardown, _exit_stack>>
    /\ UNCHANGED <<_mcp_tools, _initialized, _initialization_in_progress, lockHolder,
                   blocked, agentTools, atexitHooks, pc, ret, histVars, cbVars>>

Next ==
    \/ \E t \in Tasks : Invoke(t)
    \/ \E t \in Tasks : InitFastPath(t)
    \/ \E t \in Tasks : InitBlockOnLock(t)
    \/ \E t \in Tasks : InitWait(t)
    \/ \E t \in Tasks : InitConnect(t)
    \/ \E t \in Tasks : PollWake(t)
    \/ \E t \in Tasks, s \in ToolSeqs : ConnectSuccess(t, s)
    \/ \E t \in Tasks : ConnectFail(t)
    \/ \E c \in Callers, a \in Stages : Callback(c, a)
    \/ \E raises \in BOOLEAN : CleanupMcp(raises)

Spec == Init /\ [][Next]_vars

\* the event loop runs every coroutine that is ready to run
TaskStep(t) ==
    InitFastPath(t) \/ InitBlockOnLock(t) \/ InitWait(t) \/ InitConnect(t) \/ PollWake(t)

FairSpec == Spec /\ \A t \in Tasks : WF_vars(TaskStep(t))

\* ------------------------------------------------------------ properties
\* a step that is an invocation of check_news_researcher_tools
CallbackStep == cbTick' # cbTick
\* ... for the news_researcher stage
ResearcherCallbackStep == CallbackStep /\ cbLast'.stage = "news_researcher"

\* no body of initialize_mcp_tools_async has started to run
NoInitStarted == \A t \in Tasks : pc[t] \in {"idle", "scheduled"}

\* C1: in every reachable state at most one call of MCPToolset.from_server
\* is in flight, whatever the interleaving of the callers of
\* initialize_mcp_tools_async and of check_news_researcher_tools.
C1_AtMostOneAttemptInFlight ==
    Cardinality({t \in Tasks : pc[t] = "connecting"}) <= 1

C1_Witness ==
    \E t, u \in Tasks :
        pc[t] = "connecting" /\ pc[u] = "polling" /\ cbLast.resp = RespInProgress

\* C2: when every call of initialize_mcp_tools_async was made while the
\* state was Uninitialized and before any attempt, exactly one connection
\* attempt is made in total, whether it succeeds or fails.
C2_OneAttemptForFirstCallers == ~lateCall => attempts <= 1

\* C3: once an attempt has succeeded the state stays Ready, the cached tool
\* sequence stays the one that attempt stored, every call that returns
\* returns it, and no further connection attempt is launched.
C3_ReadyIsStable ==
    [][_initialized' =>
          /\ Ready'
          /\ _mcp_tools' = okTools'
          /\ \A t \in Tasks : (pc[t] # "done" /\ pc'[t] = "done") => ret'[t] = okTools'
          /\ _initialized => (attempts' = attempts /\ okTools' = okTools)]_vars

C3_Witness ==
    /\ Ready
    /\ lateCall
    /\ Cardinality({t \in Tasks : pc[t] = "done" /\ ret[t] = okTools}) >= 2

\* C4: after a failed connection attempt no step starts another attempt:
\* the transition out of InProgress happens once per process.
C4_FailureIsTerminal == [][lastResult = "fail" => attempts' = attempts]_vars

\* C5: after a failed connection attempt every invocation of the callback
\* for news_researcher returns the degraded "check the logs" response.
C5_DegradedAfterFailure ==
    [][(lastResult = "fail" /\ ResearcherCallbackStep) => cbLast'.resp = RespDegraded]_vars

\* C6: the callback invoked for news_researcher in state Uninitialized
\* schedules one initialize_mcp_tools_async task and answers "initializing"
\* in the same step, without connecting or touching the guard's state.
C6_UninitializedSchedulesAndAnswers ==
    [][(ResearcherCallbackStep /\ Uninitialized) =>
          /\ cbLast'.resp = RespInitializing
          /\ \E t \in Tasks : pc[t] = "idle" /\ pc' = [pc EXCEPT ![t] = "scheduled"]
          /\ cbTasks' = cbTasks + 1
          /\ UNCHANGED <<guardVars, attempts, ret>>]_vars

C6_Witness ==
    /\ cbLast.resp = RespInitializing
    /\ cbLast.stage = "news_researcher"
    /\ cbTasks = 1
    /\ Uninitialized
    /\ \E t \in Tasks : pc[t] = "scheduled"

\* C7: the callback invoked for news_researcher in state InProgress answers
\* "in progress" and has no side effect: lock, flags, cached tools, stage
\* tools, tasks and attempts are unchanged.
C7_InProgressAnswersWait ==
    [][(ResearcherCallbackStep /\ InProgress) =>
          /\ cbLast'.resp = RespInProgress
          /\ UNCHANGED <<guardVars, pc, ret, cbTasks, attempts>>]_vars

C7_Witness ==
    /\ cbLast.resp = RespInProgress
    /\ cbLast.stage = "news_researcher"
    /\ InProgress
    /\ \E t \in Tasks : pc[t] = "idle"

\* C8: the callback returns no override for news_researcher exactly when
\* the state is Ready with a non-empty cached tool sequence; otherwise it
\* returns one of the canned responses, so the stage runs only with tools.
C8_NoOverrideIffReadyWithTools ==
    [][ResearcherCallbackStep =>
          /\ (cbLast'.resp = RespNone) <=> (Ready /\ Truthy(_mcp_tools))
          /\ cbLast'.resp \in {RespNone, RespInitializing, RespInProgress, RespDegraded}
          /\ cbLast'.resp = RespNone => Truthy(agentTools["news_researcher"])]_vars

C8_Witness ==
    /\ cbLast.resp = RespNone
    /\ cbLast.stage = "news_researcher"
    /\ Ready
    /\ Truthy(_mcp_tools)

\* C9: when a caller was answered "initializing" and another caller invokes
\* the callback for news_researcher before any initialization has begun to
\* run, the second one is answered "in progress" and schedules no task.
C9_SecondCallerSeesInProgress ==
    [][(/\ ResearcherCallbackStep
        /\ NoInitStarted
        /\ cbLast.resp = RespInitializing
        /\ cbLast.stage = "news_researcher"
        /\ cbLast'.caller # cbLast.caller) =>
          (cbLast'.resp = RespInProgress /\ cbTasks' = cbTasks)]_vars

\* C10: once from_server has returned tools the state is Ready and stays
\* so with the tools it returned, and every later invocation of the callback
\* for news_researcher returns no override and finds those tools on the stage.
\* (The run that receives the tools is the run that makes the state Ready,
\* so "eventually Ready" is "Ready at once, and for good".)
C10_SuccessThenNoOverride ==
    /\ [](lastResult = "ok" => (Ready /\ _mcp_tools = okTools))
    /\ [][lastResult = "ok" => lastResult' = "ok"]_vars
    /\ [][(ResearcherCallbackStep /\ lastResult = "ok") =>
             /\ cbLast'.resp = RespNone
             /\ agentTools'["news_researcher"] = okTools
             /\ _mcp_tools' = okTools]_vars

C10_Witness ==
    /\ lastResult = "ok"
    /\ cbLast.resp = RespNone
    /\ cbLast.stage = "news_researcher"
    /\ cbTasks >= 2
    /\ \A t \in Tasks : pc[t] = "done"

\* a step that is an invocation of cleanup_mcp
CleanupStep == cleanupTick' # cleanupTick

\* C11: cleanup_mcp clears the connection handle whether aclose() succeeded
\* or raised, the handle stays cleared, and an invocation that finds it
\* cleared performs no teardown and changes no state.
C11_CleanupIdempotent ==
    [][/\ CleanupStep =>
             /\ _exit_stack' = "None"
             /\ _exit_stack # "None" => teardowns' = teardowns + 1
             /\ _exit_stack = "None" =>
                    UNCHANGED <<guardVars, pc, ret, histVars, cbVars,
                                teardowns, lastTeardown>>
       /\ teardowns >= 1 => (_exit_stack' = "None" /\ teardowns' = teardowns)]_vars

C11_Witness ==
    /\ teardowns = 1
    /\ lastTeardown = "error"
    /\ cleanupTick = 0
    /\ _exit_stack = "None"

\* C12: at every suspension point (the await of from_server, a poll sleep)
\* the suspended caller does not hold _init_lock.
C12_LockNotHeldWhileSuspended ==
    \A t \in Tasks : pc[t] \in {"connecting", "polling"} => lockHolder # t

\* C13: no reachable state has a caller of initialize_mcp_tools_async stuck
\* in the acquisition of _init_lock, from which it can never return.
C13_NoCallerStuckOnLock == \A t \in Tasks : pc[t] # "blocked"

\* C14: a caller that found the flag up never connects itself; while it
\* waits no further attempt begins, it returns only with the flag down, and
\* it returns the tool list the attempt it waited for recorded.
C14_WaiterDefers ==
    [][\A t \in Tasks : pc[t] = "polling" =>
          /\ pc'[t] \in {"polling", "done"}
          /\ attempts' = attempts
          /\ pc'[t] = "done" =>
                /\ ~_initialization_in_progress
                /\ lastResult # "none"
                /\ ret'[t] = _mcp_tools
                /\ ret'[t] = IF lastResult = "ok" THEN okTools ELSE PyList(<<>>)]_vars

C14_Witness ==
    \E t \in Tasks :
        /\ pc[t] = "done"
        /\ ret[t] = PyList(<<>>)
        /\ lastResult = "fail"
        /\ attempts = 1
        /\ Uninitialized

\* C15: the tool lists of the stages change only in the step in which an
\* attempt succeeds, which happens at most once; that step changes only the
\* list of news_researcher, to the cached sequence; a no-override answer for
\* news_researcher finds the cached sequence on the stage.
C15_StageToolsWrittenOnce ==
    [][/\ agentTools' # agentTools =>
             /\ lastResult # "ok" /\ lastResult' = "ok"
             /\ agentTools' = [agentTools EXCEPT !["news_researcher"] = _mcp_tools']
       /\ lastResult = "ok" => lastResult' = "ok"
       /\ (ResearcherCallbackStep /\ cbLast'.resp = RespNone) =>
             agentTools["news_researcher"] = _mcp_tools]_vars

C15_Witness ==
    /\ agentTools["news_researcher"] = okTools
    /\ Truthy(okTools)
    /\ agentTools["news_planner"] = PyList(<<>>)
    /\ agentTools["news_publisher"] = PyList(<<>>)
    /\ cbLast.resp = RespNone
    /\ cbLast.stage = "news_researcher"
    /\ attempts >= 2

\* C16 as stated: the cleanup hook is registered exactly once from process
\* start on, whatever the attempts do.
C16_RegisteredOnceFromStart == atexitHooks = 1

\* C16 amended: the cleanup hook is registered by the attempt that succeeds
\* and by nothing else: once when an attempt has succeeded, not at all before.
C16_RegisteredOnSuccessOnly == atexitHooks = IF lastResult = "ok" THEN 1 ELSE 0

C16_Witness ==
    /\ atexitHooks = 1
    /\ lastResult = "ok"
    /\ attempts >= 2

\* C17: the callback invoked for a stage other than news_researcher returns
\* no override, schedules nothing and leaves flags, lock, cached tools and
\* every stage's tools unchanged, in any state.
C17_OtherStagesUntouched ==
    [][(CallbackStep /\ cbLast'.stage # "news_researcher") =>
          /\ cbLast'.resp = RespNone
          /\ UNCHANGED <<guardVars, pc, ret, cbTasks, attempts>>]_vars

C17_Witness ==
    /\ cbLast.stage = "news_planner"
    /\ cbLast.resp = RespNone
    /\ Uninitialized
    /\ \A t \in Tasks : pc[t] = "idle"

\* C18: the in-progress flag is up exactly while a from_server call is in
\* flight: every attempt that returns, with tools or an exception, lowers it.
C18_FlagUpOnlyWhileInFlight ==
    _initialization_in_progress <=> (\E t \in Tasks : pc[t] = "connecting")

C18_Witness ==
    /\ lastResult = "fail"
    /\ ~_initialization_in_progress
    /\ \E t \in Tasks : pc[t] = "done" /\ ret[t] = PyNone

\* C19: in every state another task can observe the two flags are not both
\* set, the state is exactly one of Uninitialized (no attempt recorded),
\* Failed (flags down, empty list recorded), InProgress and Ready, and the
\* cached tool sequence is non-empty only with the initialized flag set.
C19_OneStateAtATime ==
    /\ ~(_initialized /\ _initialization_in_progress)
    /\ Cardinality({k \in 1..4 :
           \/ k = 1 /\ Uninitialized /\ _mcp_tools = PyNone
           \/ k = 2 /\ Uninitialized /\ _mcp_tools = PyList(<<>>)
           \/ k = 3 /\ InProgress
           \/ k = 4 /\ Ready}) = 1
    /\ Truthy(_mcp_tools) => _initialized

C19_Witness ==
    /\ Ready
    /\ Truthy(_mcp_tools)
    /\ attempts >= 2
    /\ \E t \in Tasks : pc[t] = "polling"

====
